---- MODULE Spec2Model ----
(***************************************************************************)
(* prepare_clang8_dataset.py: the join of the cLang-8 targets with the     *)
(* Lang-8 raw corpus, as a state machine.  One run of main() walks the     *)
(* configured language list; for each language the writer pulls pairs      *)
(* from a chain of generators (raw reader -> join -> optional tokenizer).  *)
(* A text is a sequence of one-character strings.                          *)
(***************************************************************************)
EXTENDS Integers, Sequences, FiniteSets, TLC

VARIABLES
  languages,      \* FLAGS.languages
  tokenize_text,  \* FLAGS.tokenize_text
  targets_files,  \* language -> the file clang8_{language}.detokenized.tsv
  raw_file,       \* the file lang-8-20111007-L1-v2.dat
  output_files,   \* language -> the file clang8_source_target_{language}[...].tsv
  pc,             \* where the run stands
  li,             \* index into languages of the language being processed
  error,          \* the uncaught exception that ended the run, "" if none
  ids_2_targets,  \* _yield_clang8_source_target_pairs: the target index
  num_targets,    \* _yield_clang8_source_target_pairs: num_targets
  n,              \* progress_bar.n of the join
  rawPos,         \* _yield_lang8_raw_dicts: lines of the raw file consumed
  num_rows,       \* _yield_lang8_raw_dicts: num_rows
  sources,        \* the join's current row: sources
  row_targets,    \* the join's current row: ids_2_targets.get(lang8_raw_ids, ())
  ti,             \* the join's position in row_targets
  pairs,          \* _tokenize: pairs = list(pairs)
  tokPos,         \* _tokenize: pairs already yielded tokenized
  item,           \* the (source, target) the writer's loop holds
  emitted,        \* history: pairs the join has yielded for this language
  io,             \* history: the file, model and console operations of the run
  completed       \* history: the output of each language that ran to its end

vars == <<languages, tokenize_text, targets_files, raw_file, output_files, pc, li,
          error, ids_2_targets, num_targets, n, rawPos, num_rows, sources,
          row_targets, ti, pairs, tokPos, item, emitted, io, completed>>

(***************************************************************************)
(* Characters and texts.                                                   *)
(***************************************************************************)
TAB == "\t"
LF == "\n"
CR == "\r"
SP == " "

\* str.replace(old, ' ') for a one-character old.
ReplaceBySpace(text, old) ==
  [i \in 1..Len(text) |-> IF text[i] = old THEN SP ELSE text[i]]

\* Mutant: the carriage return is left in place.
CleanTabsAndNewlines(text) == ReplaceBySpace(ReplaceBySpace(text, TAB), LF)

_clean_spaces(text) ==
  ReplaceBySpace(ReplaceBySpace(ReplaceBySpace(text, TAB), LF), CR)

\* The least index of c in s, 0 when c is not in s.
Find(s, c) ==
  IF \E i \in 1..Len(s) : s[i] = c
  THEN CHOOSE i \in 1..Len(s) : s[i] = c /\ \A j \in 1..(i - 1) : s[j] # c
  ELSE 0

RECURSIVE SplitTab(_)
\* line.split('\t'): the fields between the tabs, at least one field.
SplitTab(line) ==
  LET i == Find(line, TAB)
  IN  IF i = 0 THEN <<line>>
      ELSE <<SubSeq(line, 1, i - 1)>> \o SplitTab(SubSeq(line, i + 1, Len(line)))

IsSpaceChar(c) == c \in {SP, TAB, LF, CR}

RECURSIVE LStrip(_)
LStrip(s) == IF s # <<>> /\ IsSpaceChar(s[1]) THEN LStrip(Tail(s)) ELSE s

RECURSIVE RStrip(_)
RStrip(s) ==
  IF s # <<>> /\ IsSpaceChar(s[Len(s)]) THEN RStrip(SubSeq(s, 1, Len(s) - 1)) ELSE s

DigitChars == <<"0", "1", "2", "3", "4", "5", "6", "7", "8", "9">>

IsDigit(c) == \E d \in 1..Len(DigitChars) : DigitChars[d] = c

DigitValue(c) == (CHOOSE d \in 1..Len(DigitChars) : DigitChars[d] = c) - 1

RECURSIVE DigitsValue(_)
DigitsValue(ds) ==
  IF ds = <<>> THEN 0
  ELSE 10 * DigitsValue(SubSeq(ds, 1, Len(ds) - 1)) + DigitValue(ds[Len(ds)])

Fail == [ok |-> FALSE, v |-> 0]

Ok(v) == [ok |-> TRUE, v |-> v]

\* int(s) for a str: surrounding whitespace dropped, an optional sign, then
\* one or more decimal digits; anything else raises ValueError.
IntOfStr(s) ==
  LET t == RStrip(LStrip(s))
      signed == t # <<>> /\ t[1] \in {"-", "+"}
      ds == IF signed THEN Tail(t) ELSE t
  IN  IF ds = <<>> \/ \E i \in 1..Len(ds) : ~IsDigit(ds[i]) THEN Fail
      ELSE IF signed /\ t[1] = "-" THEN Ok(0 - DigitsValue(ds))
      ELSE Ok(DigitsValue(ds))

(***************************************************************************)
(* What json.loads returns for a line of the raw corpus.  A JSON value is  *)
(* an integer, a string or an array of texts; a row is an array of values  *)
(* or an object (a Python dict, which iterates over its keys).             *)
(***************************************************************************)
JInt(i) == [t |-> "int", i |-> i, s |-> <<>>, a |-> <<>>]

JStr(s) == [t |-> "str", i |-> 0, s |-> s, a |-> <<>>]

JArr(a) == [t |-> "arr", i |-> 0, s |-> <<>>, a |-> a]

BadLine == [kind |-> "bad", keys |-> <<>>, elems |-> <<>>]

ArrayRow(elems) == [kind |-> "array", keys |-> <<>>, elems |-> elems]

ObjectRow(keys, elems) == [kind |-> "object", keys |-> keys, elems |-> elems]

\* json.loads(line) raises JSONDecodeError.
ParseFails(line) == line.kind = "bad"

\* iter(row): the elements of a list, the keys of a dict.
Iter(row) ==
  IF row.kind = "array" THEN row.elems
  ELSE [i \in 1..Len(row.keys) |-> JStr(row.keys[i])]

\* Mutant: the last element is taken as sources.
UnpackSourcesLast(row) ==
  LET it == Iter(row)
  IN  IF Len(it) < 4 THEN Fail
      ELSE Ok([journal_id |-> it[1], sentence_id |-> it[2], sources |-> it[Len(it)]])

\* journal_id, sentence_id, *_, sources, _ = row
Unpack(row) ==
  LET it == Iter(row)
  IN  IF Len(it) < 4 THEN Fail
      ELSE Ok([journal_id |-> it[1], sentence_id |-> it[2],
               sources |-> it[Len(it) - 1]])

\* int(x) for a JSON value x.
IntOf(x) ==
  IF x.t = "int" THEN Ok(x.i)
  ELSE IF x.t = "str" THEN IntOfStr(x.s)
  ELSE Fail

\* seq[k] as Python indexes a sequence of length Len(seq): k counts from the
\* start when k >= 0 and from the end when k < 0; outside -Len..Len-1 it
\* raises IndexError.
PyIndex(seq, k) ==
  LET len == Len(seq)
  IN  IF 0 <= k /\ k < len THEN Ok(seq[k + 1])
      ELSE IF 0 - len <= k /\ k < 0 THEN Ok(seq[len + k + 1])
      ELSE Fail

\* sources[sentence_number]
SourceAt(src, k) ==
  IF src.t = "arr" THEN PyIndex(src.a, k)
  ELSE IF src.t = "str"
       THEN PyIndex([i \in 1..Len(src.s) |-> <<src.s[i]>>], k)
  ELSE Fail

(***************************************************************************)
(* _read_clang8_targets                                                    *)
(***************************************************************************)
\* One line of the targets file: split, unpack into five names, convert.
ParseTargetLine(line) ==
  LET f == SplitTab(line)
  IN  IF Len(f) # 5 THEN Fail
      ELSE LET j == IntOfStr(f[1])
               s == IntOfStr(f[2])
               k == IntOfStr(f[3])
           IN  IF ~j.ok \/ ~s.ok \/ ~k.ok THEN Fail
               ELSE Ok([key |-> <<j.v, s.v>>, entry |-> <<k.v, f[5]>>])

EmptyIndex == [k \in {} |-> <<>>]

\* Mutant: the entry goes to the front of the key's list.
IndexPrepend(idx, key, entry) ==
  IF key \in DOMAIN idx THEN [idx EXCEPT ![key] = <<entry>> \o @]
  ELSE idx @@ (key :> <<entry>>)

\* ids_2_targets[key].append(entry) on a defaultdict(list)
IndexAppend(idx, key, entry) ==
  IF key \in DOMAIN idx THEN [idx EXCEPT ![key] = Append(@, entry)]
  ELSE idx @@ (key :> <<entry>>)

RECURSIVE BuildIndex(_, _)
BuildIndex(lines, idx) ==
  IF lines = <<>> THEN Ok(idx)
  ELSE LET p == ParseTargetLine(Head(lines))
       IN  IF ~p.ok THEN Fail
           ELSE BuildIndex(Tail(lines), IndexAppend(idx, p.v.key, p.v.entry))

RECURSIVE SumLens(_, _)
\* sum(len(targets) for targets in ids_2_targets.values())
SumLens(idx, keys) ==
  IF keys = {} THEN 0
  ELSE LET k == CHOOSE x \in keys : TRUE
       IN  Len(idx[k]) + SumLens(idx, keys \ {k})

_read_clang8_targets(lines) ==
  LET b == BuildIndex(lines, EmptyIndex)
  IN  IF ~b.ok THEN Fail
      ELSE Ok([ids_2_targets |-> b.v, num_targets |-> SumLens(b.v, DOMAIN b.v)])

\* ids_2_targets.get(lang8_raw_ids, ())
IndexGet(idx, key) == IF key \in DOMAIN idx THEN idx[key] ELSE <<>>

\* Mutant: ids_2_targets[lang8_raw_ids] makes the defaultdict store the key.
IndexAfterSubscript(idx, key) ==
  IF key \in DOMAIN idx THEN idx ELSE idx @@ (key :> <<>>)

\* The index after .get: a defaultdict stores nothing on .get.
IndexAfterGet(idx, key) == idx

(***************************************************************************)
(* The tokenizer (spaCy) stands outside the repository: a text is cut at   *)
(* single spaces, which are dropped; a punctuation mark and a tab, newline *)
(* or carriage return is a token of its own.                               *)
(***************************************************************************)
Punctuation == {".", ",", "!", "?"}

RECURSIVE TokensFrom(_, _)
TokensFrom(text, cur) ==
  LET flush == IF cur = <<>> THEN <<>> ELSE <<cur>>
  IN  IF text = <<>> THEN flush
      ELSE LET c == Head(text)
           IN  IF c = SP THEN flush \o TokensFrom(Tail(text), <<>>)
               ELSE IF c \in Punctuation \cup {TAB, LF, CR}
                    THEN flush \o <<<<c>>>> \o TokensFrom(Tail(text), <<>>)
               ELSE TokensFrom(Tail(text), Append(cur, c))

RECURSIVE JoinBySpace(_)
\* ' '.join(tokens)
JoinBySpace(tokens) ==
  IF tokens = <<>> THEN <<>>
  ELSE IF Len(tokens) = 1 THEN tokens[1]
  ELSE tokens[1] \o <<SP>> \o JoinBySpace(Tail(tokens))

Tokenized(text) == JoinBySpace(TokensFrom(text, <<>>))

(***************************************************************************)
(* Files.  An input file is absent or a sequence of lines; an output file  *)
(* is absent or the characters written to it.                              *)
(***************************************************************************)
Missing == [exists |-> FALSE, lines |-> <<>>]

FileOf(lines) == [exists |-> TRUE, lines |-> lines]

NoOutput == [exists |-> FALSE, data |-> <<>>]

OutputOf(data) == [exists |-> TRUE, data |-> data]

\* The language -> tokenizer model enumeration of _prepare_clang8.
Unsupported == "unsupported"

\* Mutant: a language outside the enumeration gets the English model.
ModelPathWithDefault(language) ==
  CASE language = "de" -> "de_core_news_sm"
    [] language = "ru" -> "ru_core_news_sm"
    [] OTHER -> "en_core_web_sm"

ModelPath(language) ==
  CASE language = "en" -> "en_core_web_sm"
    [] language = "de" -> "de_core_news_sm"
    [] language = "ru" -> "ru_core_news_sm"
    [] OTHER -> Unsupported

language == languages[li]

Ev(op, k) == [op |-> op, li |-> li, k |-> k]

inputs == <<languages, tokenize_text, targets_files, raw_file>>

joinVars == <<ids_2_targets, num_targets, n, rawPos, num_rows, sources,
              row_targets, ti>>

\* Mutant: main's loop catches the error and goes on to the next language.
RaiseAndGoOn(e) == pc' = "main" /\ error' = e

\* An exception nobody catches: main() has no handler, the run ends.
Raise(e) == pc' = "aborted" /\ error' = e

(***************************************************************************)
(* The inputs of a run.  Texts, target lines and raw rows are drawn from   *)
(* samples; the files are the sequences of samples up to a length.         *)
(***************************************************************************)
MaxTargets == 2

MaxRaw == 2

MaxLangs == 2

SeqsUpTo(S, len) == UNION {[1..k -> S] : k \in 0..len}

HelloWrold == <<"H", "e", "l", "l", "o", SP, "w", "r", "o", "l", "d", ".">>

NextSentence == <<"N", "e", "x", "t", SP, "s", "e", "n", "t", "e", "n", "c", "e", ".">>

HelloWorld == <<"H", "e", "l", "l", "o", SP, "w", "o", "r", "l", "d", ".">>

TabbedSentence == <<"a", TAB, "b", CR, LF>>

TargetLine(journal_id, sentence_id, sentence_number, unused, target) ==
  journal_id \o <<TAB>> \o sentence_id \o <<TAB>> \o sentence_number
    \o <<TAB>> \o unused \o <<TAB>> \o target

T_1_2_0 == TargetLine(<<"1">>, <<"2">>, <<"0">>, <<"-">>, HelloWorld)

T_1_2_1 == TargetLine(<<"1">>, <<"2">>, <<"1">>, <<"-">>, <<"y">>)

T_1_2_neg == TargetLine(<<"1">>, <<"2">>, <<"-", "1">>, <<"-">>, <<"z">>)

T_1_2_far == TargetLine(<<"1">>, <<"2">>, <<"2">>, <<"-">>, <<"w">>)

T_3_4_0 == TargetLine(<<"3">>, <<"4">>, <<"0">>, <<"-">>, <<"x">>)

T_four_fields == <<"1", TAB, "2", TAB, "0", TAB, "x">>

T_six_fields == TargetLine(<<"1">>, <<"2">>, <<"0">>, <<"-">>, <<"a", TAB, "b">>)

T_bad_int == TargetLine(<<"x">>, <<"2">>, <<"0">>, <<"-">>, <<"x">>)

\* ["1", "2", "English", "Japanese", ["Hello wrold.", "Next sentence."], []]
R_1_2 ==
  ArrayRow(<<JStr(<<"1">>), JStr(<<"2">>), JStr(<<"E", "n", "g", "l", "i", "s", "h">>), JStr(<<"J", "a", "p", "a", "n", "e", "s", "e">>),
             JArr(<<HelloWrold, NextSentence>>), JArr(<<>>)>>)

\* [1, 2, ["a\tb\r\n"], []]
R_1_2_again == ArrayRow(<<JInt(1), JInt(2), JArr(<<TabbedSentence>>), JArr(<<>>)>>)

\* [3, 4, "English", ["c d.", "e"], []]
R_3_4 ==
  ArrayRow(<<JInt(3), JInt(4), JStr(<<"E", "n", "g", "l", "i", "s", "h">>), JArr(<<<<"c", SP, "d", ".">>, <<"e">>>>), JArr(<<>>)>>)

\* {"journal_id": 1, "sentence_id": 2, "sources": ["Hello wrold.", "Next sentence."]}
R_object ==
  ObjectRow(<<<<"j", "o", "u", "r", "n", "a", "l", "_", "i", "d">>, <<"s", "e", "n", "t", "e", "n", "c", "e", "_", "i", "d">>, <<"s", "o", "u", "r", "c", "e", "s">>>>,
            <<JInt(1), JInt(2), JArr(<<HelloWrold, NextSentence>>)>>)

\* {"journal_id": 1, "sentence_id": 2, "sources": [...], "corrections": 0}
R_object_4 ==
  ObjectRow(<<<<"j", "o", "u", "r", "n", "a", "l", "_", "i", "d">>, <<"s", "e", "n", "t", "e", "n", "c", "e", "_", "i", "d">>, <<"s", "o", "u", "r", "c", "e", "s">>, <<"c", "o", "r", "r", "e", "c", "t", "i", "o", "n", "s">>>>,
            <<JInt(1), JInt(2), JArr(<<HelloWrold, NextSentence>>), JInt(0)>>)

\* [1, 2, ["Hello wrold.", "Next sentence."]]
R_three == ArrayRow(<<JInt(1), JInt(2), JArr(<<HelloWrold, NextSentence>>)>>)

\* [1, 2, ["Hello wrold.", "Next sentence."], "English"]
R_sources_next_to_last ==
  ArrayRow(<<JInt(1), JInt(2), JArr(<<HelloWrold, NextSentence>>), JStr(<<"E", "n", "g", "l", "i", "s", "h">>)>>)

\* [1, 2, "English", ["Hello wrold.", "Next sentence."]]
R_sources_last ==
  ArrayRow(<<JInt(1), JInt(2), JStr(<<"E", "n", "g", "l", "i", "s", "h">>), JArr(<<HelloWrold, NextSentence>>)>>)

LangCodes == {"en", "de", "ru", "fr"}

OldOutput == OutputOf(<<"o", "l", "d", LF>>)

JoinTargetSamples == {T_1_2_0, T_1_2_1, T_1_2_neg, T_3_4_0}

JoinRawSamples == {R_1_2, R_1_2_again, R_3_4}

ShapeTargetSamples == {T_1_2_0, T_1_2_far, T_four_fields, T_six_fields, T_bad_int}

ShapeRawSamples ==
  {R_1_2, R_object, R_object_4, R_three, R_sources_next_to_last, R_sources_last,
   BadLine}

RunTargetFiles == {Missing, FileOf(<<T_1_2_0>>), FileOf(<<T_four_fields>>)}

RunRawFiles == {Missing, FileOf(<<R_1_2>>)}

\* One language and the files the join is about.
JoinInputs ==
  /\ languages = <<"en">>
  /\ \E f \in SeqsUpTo(JoinTargetSamples, MaxTargets) :
       targets_files = [l \in LangCodes |-> IF l = "en" THEN FileOf(f) ELSE Missing]
  /\ raw_file \in {FileOf(f) : f \in SeqsUpTo(JoinRawSamples, MaxRaw)}
  /\ output_files = [l \in LangCodes |-> NoOutput]

\* One language, the forms of a targets line and the shapes of a raw row.
ShapeInputs ==
  /\ languages = <<"en">>
  /\ \E t \in ShapeTargetSamples :
       targets_files = [l \in LangCodes |-> IF l = "en" THEN FileOf(<<t>>) ELSE Missing]
  /\ raw_file \in {FileOf(f) : f \in SeqsUpTo(ShapeRawSamples, MaxRaw)}
  /\ output_files = [l \in LangCodes |-> NoOutput]

\* A list of languages, each with its targets file present, absent or
\* malformed, with and without output files of an earlier run.
RunInputs ==
  /\ languages \in SeqsUpTo(LangCodes, MaxLangs)
  /\ targets_files \in [LangCodes -> RunTargetFiles]
  /\ \A l \in LangCodes :
       (ModelPath(l) = Unsupported \/ \A i \in 1..Len(languages) : languages[i] # l)
         => targets_files[l] = Missing
  /\ raw_file \in RunRawFiles
  /\ output_files \in {[l \in LangCodes |-> NoOutput], [l \in LangCodes |-> OldOutput]}

Init ==
  /\ tokenize_text \in BOOLEAN
  /\ JoinInputs \/ ShapeInputs \/ RunInputs
  /\ pc = "main"
  /\ li = 0
  /\ error = ""
  /\ ids_2_targets = EmptyIndex
  /\ num_targets = 0
  /\ n = 0
  /\ rawPos = 0
  /\ num_rows = 0
  /\ sources = JArr(<<>>)
  /\ row_targets = <<>>
  /\ ti = 0
  /\ pairs = <<>>
  /\ tokPos = 0
  /\ item = <<>>
  /\ emitted = <<>>
  /\ io = <<>>
  /\ completed = <<>>

(***************************************************************************)
(* main: the loop over FLAGS.languages.                                    *)
(***************************************************************************)
\* The locals of one call of _prepare_clang8 and of its generators are fresh.
MainLoop ==
  /\ pc = "main"
  /\ IF li < Len(languages)
     THEN /\ li' = li + 1
          /\ pc' = "prepare"
          /\ io' = Append(io, [op |-> "print_language", li |-> li + 1, k |-> 0])
          /\ ids_2_targets' = EmptyIndex
          /\ num_targets' = 0
          /\ n' = 0
          /\ rawPos' = 0
          /\ num_rows' = 0
          /\ sources' = JArr(<<>>)
          /\ row_targets' = <<>>
          /\ ti' = 0
          /\ pairs' = <<>>
          /\ tokPos' = 0
          /\ item' = <<>>
          /\ emitted' = <<>>
     ELSE /\ pc' = "done"
          /\ UNCHANGED <<li, io, joinVars, pairs, tokPos, item, emitted>>
  /\ UNCHANGED <<inputs, output_files, error, completed>>

(***************************************************************************)
(* _prepare_clang8 up to the call of the writer: the language check, the   *)
(* generator objects (created, not started) and spacy.load.                *)
(***************************************************************************)
PrepareLanguage ==
  /\ pc = "prepare"
  /\ IF ModelPath(language) = Unsupported
     THEN /\ Raise("ValueError: Unsupported language")
          /\ UNCHANGED io
     ELSE /\ pc' = "open_output"
          /\ io' = IF tokenize_text THEN Append(io, Ev("load_model", 0)) ELSE io
          /\ UNCHANGED error
  /\ UNCHANGED <<inputs, output_files, li, joinVars, pairs, tokPos, item, emitted,
                 completed>>

(***************************************************************************)
(* _write_source_target_pairs_to_tsv                                       *)
(***************************************************************************)
\* open(output_path, 'w'): the file is created, or truncated if it exists.
\* Mutant: mode 'a', an existing file keeps what it holds.
OpenForAppending(file) == IF file.exists THEN file ELSE OutputOf(<<>>)

\* open(output_path, 'w'): created empty, or truncated.
OpenForWriting(file) == OutputOf(<<>>)

OpenOutput ==
  /\ pc = "open_output"
  /\ output_files' = [output_files EXCEPT ![language] = OpenForWriting(@)]
  /\ io' = Append(io, Ev("open_output", 0))
  /\ pc' = "read_targets"
  /\ UNCHANGED <<inputs, li, error, joinVars, pairs, tokPos, item, emitted,
                 completed>>

\* open(output_path, 'w') raises OSError (no directory, no permission).
OpenOutputFails ==
  /\ pc = "open_output"
  /\ Raise("OSError: open output")
  /\ UNCHANGED <<inputs, output_files, li, joinVars, pairs, tokPos, item, emitted,
                 io, completed>>

\* source, target = _clean_spaces(...); f.write(f'{source}\t{target}\n')
WrittenLine(pair) ==
  _clean_spaces(pair[1]) \o <<TAB>> \o _clean_spaces(pair[2]) \o <<LF>>

WritePair ==
  /\ pc = "write"
  /\ output_files' = [output_files EXCEPT
                        ![language] = OutputOf(@.data \o WrittenLine(item))]
  /\ io' = Append(io, Ev("write", 0))
  /\ pc' = IF tokenize_text THEN "tokenize" ELSE "resume"
  /\ UNCHANGED <<inputs, li, error, joinVars, pairs, tokPos, item, emitted,
                 completed>>

\* f.write raises OSError (disk full): nothing of this pair is written.
WriteFails ==
  /\ pc = "write"
  /\ Raise("OSError: write")
  /\ UNCHANGED <<inputs, output_files, li, joinVars, pairs, tokPos, item, emitted,
                 io, completed>>

\* The pairs are exhausted: the file is closed, the path printed, and
\* _prepare_clang8 returns to main's loop.
CloseOutput ==
  /\ pc = "close"
  /\ io' = Append(io, Ev("print_wrote", 0))
  /\ completed' = Append(completed, [li |-> li, language |-> language,
                                     data |-> output_files[language].data])
  /\ pc' = "main"
  /\ UNCHANGED <<inputs, output_files, li, error, joinVars, pairs, tokPos, item,
                 emitted>>

(***************************************************************************)
(* _yield_clang8_source_target_pairs, started by the first pull of the     *)
(* writer's loop (through list(pairs) of _tokenize when tokenizing).       *)
(***************************************************************************)
\* ids_2_targets, num_targets = _read_clang8_targets(clang8_path)
ReadTargets ==
  /\ pc = "read_targets"
  /\ LET file == targets_files[language]
         r == _read_clang8_targets(file.lines)
     IN  IF ~file.exists
         THEN /\ Raise("FileNotFoundError: targets")
              /\ io' = Append(io, Ev("open_targets", 0))
              /\ UNCHANGED <<ids_2_targets, num_targets>>
         ELSE IF ~r.ok
         THEN /\ Raise("ValueError: targets line")
              /\ io' = io \o <<Ev("open_targets", 0),
                               Ev("read_targets", Len(file.lines))>>
              /\ UNCHANGED <<ids_2_targets, num_targets>>
         ELSE /\ ids_2_targets' = r.v.ids_2_targets
              /\ num_targets' = r.v.num_targets
              /\ io' = io \o <<Ev("open_targets", 0),
                               Ev("read_targets", Len(file.lines)),
                               Ev("print_targets", r.v.num_targets)>>
              /\ pc' = "open_raw"
              /\ UNCHANGED error
  /\ UNCHANGED <<inputs, output_files, li, n, rawPos, num_rows, sources,
                 row_targets, ti, pairs, tokPos, item, emitted, completed>>

\* _yield_lang8_raw_dicts, started by the join's for loop: open(path)
OpenRaw ==
  /\ pc = "open_raw"
  /\ IF ~raw_file.exists
     THEN /\ Raise("FileNotFoundError: raw corpus")
          /\ UNCHANGED io
     ELSE /\ pc' = "read_line"
          /\ io' = Append(io, Ev("open_raw", 0))
          /\ UNCHANGED error
  /\ UNCHANGED <<inputs, output_files, li, joinVars, pairs, tokPos, item, emitted,
                 completed>>

\* Mutant: no handler around json.loads, a line that fails ends the run.
ReadLineUnhandled ==
  /\ pc = "read_line"
  /\ rawPos < Len(raw_file.lines)
  /\ rawPos' = rawPos + 1
  /\ LET line == raw_file.lines[rawPos + 1]
         u == Unpack(line)
         j == IntOf(u.v.journal_id)
         s == IntOf(u.v.sentence_id)
     IN  IF ParseFails(line)
         THEN /\ io' = Append(io, Ev("read_line", rawPos + 1))
              /\ Raise("JSONDecodeError")
              /\ UNCHANGED <<sources, row_targets, ti, ids_2_targets>>
         ELSE /\ io' = io \o <<Ev("read_line", rawPos + 1), Ev("yield_row", rawPos + 1)>>
              /\ IF ~u.ok \/ ~j.ok \/ ~s.ok
                 THEN /\ Raise("ValueError: raw row")
                      /\ UNCHANGED <<sources, row_targets, ti, ids_2_targets>>
                 ELSE /\ sources' = u.v.sources
                      /\ row_targets' = IndexGet(ids_2_targets, <<j.v, s.v>>)
                      /\ ids_2_targets' = IndexAfterGet(ids_2_targets, <<j.v, s.v>>)
                      /\ ti' = 0
                      /\ pc' = "targets"
                      /\ UNCHANGED error
  /\ UNCHANGED <<inputs, output_files, li, num_targets, n, num_rows, pairs, tokPos,
                 item, emitted, completed>>

\* The reader takes the next line; a line json.loads rejects is passed over,
\* any other is yielded to the join, which unpacks it, converts the two ids
\* and looks the pair up in the index.
ReadLine ==
  /\ pc = "read_line"
  /\ rawPos < Len(raw_file.lines)
  /\ rawPos' = rawPos + 1
  /\ LET line == raw_file.lines[rawPos + 1]
         u == Unpack(line)
         j == IntOf(u.v.journal_id)
         s == IntOf(u.v.sentence_id)
     IN  IF ParseFails(line)
         THEN /\ io' = Append(io, Ev("read_line", rawPos + 1))
              /\ UNCHANGED <<pc, error, sources, row_targets, ti, ids_2_targets>>
         ELSE /\ io' = io \o <<Ev("read_line", rawPos + 1), Ev("yield_row", rawPos + 1)>>
              /\ IF ~u.ok \/ ~j.ok \/ ~s.ok
                 THEN /\ Raise("ValueError: raw row")
                      /\ UNCHANGED <<sources, row_targets, ti, ids_2_targets>>
                 ELSE /\ sources' = u.v.sources
                      /\ row_targets' = IndexGet(ids_2_targets, <<j.v, s.v>>)
                      /\ ids_2_targets' = IndexAfterGet(ids_2_targets, <<j.v, s.v>>)
                      /\ ti' = 0
                      /\ pc' = "targets"
                      /\ UNCHANGED error
  /\ UNCHANGED <<inputs, output_files, li, num_targets, n, num_rows, pairs, tokPos,
                 item, emitted, completed>>

\* yield sources[sentence_number], target: to list(pairs) of _tokenize, which
\* takes the next at once, or to the writer's loop.
YieldPair ==
  /\ pc = "targets"
  /\ ti < Len(row_targets)
  /\ LET sentence_number == row_targets[ti + 1][1]
         target == row_targets[ti + 1][2]
         src == SourceAt(sources, sentence_number)
     IN  IF ~src.ok
         THEN /\ Raise("IndexError: sources")
              /\ UNCHANGED <<pairs, item, emitted, io>>
         ELSE /\ emitted' = Append(emitted, <<src.v, target>>)
              /\ io' = Append(io, Ev("yield_pair", 0))
              /\ IF tokenize_text
                 THEN /\ pairs' = Append(pairs, <<src.v, target>>)
                      /\ pc' = "resume"
                      /\ UNCHANGED item
                 ELSE /\ item' = <<src.v, target>>
                      /\ pc' = "write"
                      /\ UNCHANGED pairs
              /\ UNCHANGED error
  /\ UNCHANGED <<inputs, output_files, li, joinVars, tokPos, completed>>

\* The join is resumed after its yield: progress_bar.update(1)
ResumeJoin ==
  /\ pc = "resume"
  /\ n' = n + 1
  /\ ti' = ti + 1
  /\ pc' = "targets"
  /\ UNCHANGED <<inputs, output_files, li, error, ids_2_targets, num_targets,
                 rawPos, num_rows, sources, row_targets, pairs, tokPos, item,
                 emitted, io, completed>>

\* The row's targets are exhausted; the reader is resumed after its yield:
\* num_rows += 1
EndOfRecord ==
  /\ pc = "targets"
  /\ ti = Len(row_targets)
  /\ num_rows' = num_rows + 1
  /\ pc' = "read_line"
  /\ UNCHANGED <<inputs, output_files, li, error, ids_2_targets, num_targets, n,
                 rawPos, sources, row_targets, ti, pairs, tokPos, item, emitted,
                 io, completed>>

\* The raw file is exhausted: the reader prints its count and ends, the join
\* prints its count and ends.
ReaderExhausted ==
  /\ pc = "read_line"
  /\ rawPos = Len(raw_file.lines)
  /\ io' = io \o <<Ev("print_rows", num_rows), Ev("print_mapped", n)>>
  /\ pc' = IF tokenize_text THEN "tokenize" ELSE "close"
  /\ UNCHANGED <<inputs, output_files, li, error, joinVars, pairs, tokPos, item,
                 emitted, completed>>

(***************************************************************************)
(* _tokenize, after pairs = list(pairs): the next tokenized pair.          *)
(***************************************************************************)
TokenizeNext ==
  /\ pc = "tokenize"
  /\ IF tokPos < Len(pairs)
     THEN /\ item' = <<Tokenized(pairs[tokPos + 1][1]), Tokenized(pairs[tokPos + 1][2])>>
          /\ tokPos' = tokPos + 1
          /\ pc' = "write"
     ELSE /\ pc' = "close"
          /\ UNCHANGED <<item, tokPos>>
  /\ UNCHANGED <<inputs, output_files, li, error, joinVars, pairs, emitted, io,
                 completed>>

Next ==
  \/ MainLoop
  \/ PrepareLanguage
  \/ OpenOutput
  \/ OpenOutputFails
  \/ ReadTargets
  \/ OpenRaw
  \/ ReadLine
  \/ YieldPair
  \/ ResumeJoin
  \/ EndOfRecord
  \/ ReaderExhausted
  \/ TokenizeNext
  \/ WritePair
  \/ WriteFails
  \/ CloseOutput

Spec == Init /\ [][Next]_vars

(***************************************************************************)
(* What the claims speak of: the events of the language being processed,   *)
(* the records and target entries the input files hold.                    *)
(***************************************************************************)
Started == li >= 1

Happened(op) == \E i \in 1..Len(io) : io[i].li = li /\ io[i].op = op

CurrentEvents == SelectSeq(io, LAMBDA e : e.li = li)

CountBefore(evs, op, i) == Cardinality({j \in 1..(i - 1) : evs[j].op = op})

JoinExhausted == Started /\ Happened("print_mapped")

TargetLines == targets_files[language].lines

RawLines == raw_file.lines

\* A row that is a record (document id, record id, ..., sentences, corrections).
WellFormedRow(row) ==
  /\ row.kind = "array"
  /\ Len(row.elems) >= 4
  /\ IntOf(row.elems[1]).ok
  /\ IntOf(row.elems[2]).ok
  /\ row.elems[Len(row.elems) - 1].t = "arr"

RecordOf(row) ==
  [key |-> <<IntOf(row.elems[1]).v, IntOf(row.elems[2]).v>>,
   sentences |-> row.elems[Len(row.elems) - 1].a]

TargetEntries == [i \in 1..Len(TargetLines) |-> ParseTargetLine(TargetLines[i]).v]

InputsWellFormed ==
  /\ Started
  /\ targets_files[language].exists
  /\ raw_file.exists
  /\ \A i \in 1..Len(TargetLines) : ParseTargetLine(TargetLines[i]).ok
  /\ \A i \in 1..Len(RawLines) : ParseFails(RawLines[i]) \/ WellFormedRow(RawLines[i])

PositionsInRange ==
  /\ InputsWellFormed
  /\ \A i \in 1..Len(RawLines) : \A j \in 1..Len(TargetLines) :
       (~ParseFails(RawLines[i]) /\ TargetEntries[j].key = RecordOf(RawLines[i]).key)
         => TargetEntries[j].entry[1] \in 0..(Len(RecordOf(RawLines[i]).sentences) - 1)

IsPrefix(s, t) == Len(s) <= Len(t) /\ s = SubSeq(t, 1, Len(s))

RECURSIVE PairsOfRecord(_, _)
\* The entries stored under the record's key, in targets-file order, each
\* paired with the record's sentence at the entry's position.
PairsOfRecord(rec, entries) ==
  IF entries = <<>> THEN <<>>
  ELSE LET e == Head(entries)
       IN  (IF e.key = rec.key
            THEN <<<<rec.sentences[e.entry[1] + 1], e.entry[2]>>>>
            ELSE <<>>) \o PairsOfRecord(rec, Tail(entries))

RECURSIVE JoinOf(_, _)
JoinOf(rows, entries) ==
  IF rows = <<>> THEN <<>>
  ELSE (IF ParseFails(Head(rows)) THEN <<>>
        ELSE PairsOfRecord(RecordOf(Head(rows)), entries)) \o JoinOf(Tail(rows), entries)

(***************************************************************************)
(* C1.  When every referenced position is in range, the pairs the join     *)
(* yields are, for each raw record in stream order, the entries under the  *)
(* record's key in targets-file order, each with the sentence at its       *)
(* position: a prefix of that sequence while the join runs, the whole of   *)
(* it once the join is exhausted.                                          *)
(***************************************************************************)
C1_JoinOrder ==
  PositionsInRange =>
    /\ IsPrefix(emitted, JoinOf(RawLines, TargetEntries))
    /\ JoinExhausted => emitted = JoinOf(RawLines, TargetEntries)

\* Two entries of one key, the later position first in the targets file.
C1_Witness ==
  /\ PositionsInRange
  /\ JoinExhausted
  /\ Len(emitted) = 2
  /\ emitted[1][1] = NextSentence
  /\ emitted[2][1] = HelloWrold

(***************************************************************************)
(* C2.  Once the join is exhausted, the number of pairs it yielded is the  *)
(* number of target entries whose key is the key of some raw record; it is *)
(* at most the count the index builder reported and equals it exactly when *)
(* every target key is in the raw corpus -- for any raw corpus, also one   *)
(* in which several records carry the same id pair.                        *)
(***************************************************************************)
KeyInRaw(key) ==
  \E i \in 1..Len(RawLines) :
    ~ParseFails(RawLines[i]) /\ RecordOf(RawLines[i]).key = key

MatchedEntries == {j \in 1..Len(TargetLines) : KeyInRaw(TargetEntries[j].key)}

ReportedTargets ==
  LET evs == SelectSeq(CurrentEvents, LAMBDA e : e.op = "print_targets")
  IN  evs[1].k

JoinCompleteness ==
  /\ Len(emitted) = Cardinality(MatchedEntries)
  /\ Len(emitted) <= ReportedTargets
  /\ Len(emitted) = ReportedTargets <=> MatchedEntries = 1..Len(TargetLines)

\* C2: at exhaustion the pairs yielded number the target entries whose key is
\* in the raw corpus, at most the reported total, equal to it exactly when
\* every target key is in the raw corpus.
C2_JoinCompleteness == (InputsWellFormed /\ JoinExhausted) => JoinCompleteness

\* The same count when no two raw records carry the same id pair.
DistinctRawKeys ==
  \A i, j \in 1..Len(RawLines) :
    (i # j /\ ~ParseFails(RawLines[i]) /\ ~ParseFails(RawLines[j]))
      => RecordOf(RawLines[i]).key # RecordOf(RawLines[j]).key

\* C2 restricted to raw corpora of distinct id pairs.
C2_DistinctKeys ==
  (InputsWellFormed /\ DistinctRawKeys /\ JoinExhausted) => JoinCompleteness

(***************************************************************************)
(* C3 as stated.  The raw corpus is the one line                           *)
(*   {"journal_id":1,"sentence_id":2,"sources":["Hello wrold.","Next       *)
(*   sentence."]}                                                          *)
(* and the targets file the one line 1, 2, 0, -, "Hello world.": the       *)
(* untokenized run completes and the output file is the one line           *)
(* "Hello wrold." TAB "Hello world." NEWLINE.  In general a row that       *)
(* carries a document id, a record id and a sentence array is never        *)
(* rejected, whatever its number of other fields.                          *)
(***************************************************************************)
EnvironmentErrors == {"OSError: open output", "OSError: write"}

ScenarioRun(row) ==
  /\ languages = <<"en">>
  /\ ~tokenize_text
  /\ raw_file = FileOf(<<row>>)
  /\ targets_files["en"] = FileOf(<<T_1_2_0>>)

ScenarioOutput == OutputOf(HelloWrold \o <<TAB>> \o HelloWorld \o <<LF>>)

ScenarioCompletes(row) ==
  ScenarioRun(row) =>
    /\ pc = "aborted" => error \in EnvironmentErrors
    /\ pc = "done" => output_files["en"] = ScenarioOutput

IsSentenceArray(x) == x.t = "arr" /\ x.a # <<>>

CarriesRecord(row) ==
  \/ /\ row.kind = "object"
     /\ \E i, j, k \in 1..Len(row.keys) :
          /\ row.keys[i] = <<"j", "o", "u", "r", "n", "a", "l", "_", "i", "d">>
          /\ IntOf(row.elems[i]).ok
          /\ row.keys[j] = <<"s", "e", "n", "t", "e", "n", "c", "e", "_", "i", "d">>
          /\ IntOf(row.elems[j]).ok
          /\ row.keys[k] = <<"s", "o", "u", "r", "c", "e", "s">>
          /\ IsSentenceArray(row.elems[k])
  \/ /\ row.kind = "array"
     /\ Len(row.elems) >= 3
     /\ IntOf(row.elems[1]).ok
     /\ IntOf(row.elems[2]).ok
     /\ \E k \in 3..Len(row.elems) : IsSentenceArray(row.elems[k])

RowRejected == Started /\ error = "ValueError: raw row"

\* C3 as stated: the object-line scenario completes with the one output line,
\* and no row carrying the two ids and a sentence array is rejected.
C3_RecordAccepted ==
  /\ ScenarioCompletes(R_object)
  /\ RowRejected => ~CarriesRecord(RawLines[rawPos])

(***************************************************************************)
(* C3 as amended.  The scenario holds for the raw line                     *)
(*   ["1","2","English","Japanese",["Hello wrold.","Next sentence."],[]]   *)
(* A row is accepted exactly when, iterated as Python iterates it (an      *)
(* array by its elements, an object by its keys), it has at least four     *)
(* elements of which the first two convert to integers; the element before *)
(* the last is then taken as the sentence array.  Any other row that       *)
(* parses ends the run with an error.                                      *)
(***************************************************************************)
ElementsOf(row) ==
  IF row.kind = "object" THEN [i \in 1..Len(row.keys) |-> JStr(row.keys[i])]
  ELSE row.elems

AcceptedRow(row) ==
  /\ Len(ElementsOf(row)) >= 4
  /\ IntOf(ElementsOf(row)[1]).ok
  /\ IntOf(ElementsOf(row)[2]).ok

RowTaken == Started /\ rawPos >= 1 /\ ~ParseFails(RawLines[rawPos])

\* C3 as amended: the array-line scenario completes with the one output line;
\* a row is rejected exactly when its iteration has fewer than four elements
\* or an id that does not convert; sources is the element before the last.
C3_ArrayRecordAccepted ==
  /\ ScenarioCompletes(R_1_2)
  /\ RowRejected => ~AcceptedRow(RawLines[rawPos])
  /\ (RowTaken /\ ~AcceptedRow(RawLines[rawPos])) => RowRejected
  /\ (RowTaken /\ pc \in {"targets", "resume"})
       => sources = ElementsOf(RawLines[rawPos])[Len(ElementsOf(RawLines[rawPos])) - 1]

C3_Witness ==
  /\ ScenarioRun(R_1_2)
  /\ pc = "done"
  /\ output_files["en"] = ScenarioOutput

(***************************************************************************)
(* _write_source_target_pairs_to_tsv on its own: the writer called with a  *)
(* list of pairs of any texts.  pairs is the list, tokPos the position of  *)
(* the writer's loop in it.                                                *)
(***************************************************************************)
MaxPairs == 2

WriterTexts ==
  {<<>>, <<"a">>, <<TAB>>, <<LF>>, <<CR>>, <<"a", TAB, SP, LF, "b", CR>>}

WriterInit ==
  /\ languages = <<"en">>
  /\ tokenize_text = FALSE
  /\ targets_files = [l \in LangCodes |-> Missing]
  /\ raw_file = Missing
  /\ output_files \in {[l \in LangCodes |-> NoOutput], [l \in LangCodes |-> OldOutput]}
  /\ pc = "writer_open"
  /\ li = 1
  /\ error = ""
  /\ ids_2_targets = EmptyIndex
  /\ num_targets = 0
  /\ n = 0
  /\ rawPos = 0
  /\ num_rows = 0
  /\ sources = JArr(<<>>)
  /\ row_targets = <<>>
  /\ ti = 0
  /\ pairs \in SeqsUpTo(WriterTexts \X WriterTexts, MaxPairs)
  /\ tokPos = 0
  /\ item = <<>>
  /\ emitted = <<>>
  /\ io = <<>>
  /\ completed = <<>>

\* with open(output_path, 'w') as f:
WriterOpen ==
  /\ pc = "writer_open"
  /\ output_files' = [output_files EXCEPT ![language] = OpenForWriting(@)]
  /\ io' = Append(io, Ev("open_output", 0))
  /\ pc' = "writer_next"
  /\ UNCHANGED <<inputs, li, error, joinVars, pairs, tokPos, item, emitted,
                 completed>>

\* for source, target in pairs:
WriterNext ==
  /\ pc = "writer_next"
  /\ IF tokPos < Len(pairs)
     THEN /\ item' = pairs[tokPos + 1]
          /\ tokPos' = tokPos + 1
          /\ pc' = "writer_write"
     ELSE /\ pc' = "writer_close"
          /\ UNCHANGED <<item, tokPos>>
  /\ UNCHANGED <<inputs, output_files, li, error, joinVars, pairs, emitted, io,
                 completed>>

WriterWrite ==
  /\ pc = "writer_write"
  /\ output_files' = [output_files EXCEPT
                        ![language] = OutputOf(@.data \o WrittenLine(item))]
  /\ io' = Append(io, Ev("write", 0))
  /\ pc' = "writer_next"
  /\ UNCHANGED <<inputs, li, error, joinVars, pairs, tokPos, item, emitted,
                 completed>>

WriterWriteFails ==
  /\ pc = "writer_write"
  /\ Raise("OSError: write")
  /\ UNCHANGED <<inputs, output_files, li, joinVars, pairs, tokPos, item, emitted,
                 io, completed>>

WriterClose ==
  /\ pc = "writer_close"
  /\ io' = Append(io, Ev("print_wrote", 0))
  /\ completed' = Append(completed, [li |-> li, language |-> language,
                                     data |-> output_files[language].data])
  /\ pc' = "done"
  /\ UNCHANGED <<inputs, output_files, li, error, joinVars, pairs, tokPos, item,
                 emitted>>

WriterNextStep ==
  \/ WriterOpen
  \/ WriterNext
  \/ WriterWrite
  \/ WriterWriteFails
  \/ WriterClose

SpecWriter == WriterInit /\ [][WriterNextStep]_vars

(***************************************************************************)
(* C4.  Whatever tabs, newlines and carriage returns the pairs hold, the   *)
(* output file has one line per pair written, in the order of the pairs;   *)
(* each line has exactly one tab and ends in its only newline; each field  *)
(* has the length of the input text, a space where the input has a tab,    *)
(* newline or carriage return, and the input's character elsewhere.        *)
(***************************************************************************)
Written == Cardinality({i \in 1..Len(io) : io[i].op = "write"})

RECURSIVE LinesOf(_)
\* The lines of a file's data: each runs to, and without, its newline.
LinesOf(data) ==
  LET i == Find(data, LF)
  IN  IF i = 0 THEN (IF data = <<>> THEN <<>> ELSE <<data>>)
      ELSE <<SubSeq(data, 1, i - 1)>> \o LinesOf(SubSeq(data, i + 1, Len(data)))

Sanitized(text, field) ==
  /\ Len(field) = Len(text)
  /\ \A i \in 1..Len(text) :
       field[i] = IF text[i] \in {TAB, LF, CR} THEN SP ELSE text[i]

LineOfPair(line, pair) ==
  /\ Cardinality({i \in 1..Len(line) : line[i] = TAB}) = 1
  /\ Len(line) = Len(pair[1]) + 1 + Len(pair[2])
  /\ Sanitized(pair[1], SubSeq(line, 1, Len(pair[1])))
  /\ line[Len(pair[1]) + 1] = TAB
  /\ Sanitized(pair[2], SubSeq(line, Len(pair[1]) + 2, Len(line)))

\* C4: one well-formed, sanitized line per pair written, in order.
C4_WriterLines ==
  LET data == output_files[language].data
  IN  Written >= 1 =>
        /\ data[Len(data)] = LF
        /\ Cardinality({i \in 1..Len(data) : data[i] = LF}) = Written
        /\ Len(LinesOf(data)) = Written
        /\ \A i \in 1..Written : LineOfPair(LinesOf(data)[i], pairs[i])
        /\ pc = "done" => Written = Len(pairs)

\* Two pairs written, the first with a tab, a newline and a carriage return
\* in its source, the second with a tab as its target.
C4_Witness ==
  /\ pc = "done"
  /\ Written = 2
  /\ pairs[1][1] = <<"a", TAB, SP, LF, "b", CR>>
  /\ pairs[2][2] = <<TAB>>

(***************************************************************************)
(* C5.  A language other than en, de, ru ends the run with the             *)
(* unsupported-language error as the first thing done for it: no file is   *)
(* opened, read, created or truncated and no tokenizer model is loaded for *)
(* it, with tokenize_text true or false; its output file is never touched. *)
(***************************************************************************)
ClaimedLanguages == {"en", "de", "ru"}

UnsupportedError == "ValueError: Unsupported language"

\* C5: an unsupported language aborts with nothing but its name printed.
C5_UnsupportedFailsFirst ==
  /\ (Started /\ language \notin ClaimedLanguages) =>
       /\ pc \in {"prepare", "aborted"}
       /\ pc = "aborted" => error = UnsupportedError
       /\ \A i \in 1..Len(io) : io[i].li = li => io[i].op = "print_language"
  /\ \A l \in LangCodes \ ClaimedLanguages : output_files[l] \in {NoOutput, OldOutput}
  /\ error = UnsupportedError => (Started /\ language \notin ClaimedLanguages)

\* The second language of the list is unsupported, tokenization is on, and
\* the first language ran to its end.
C5_Witness ==
  /\ pc = "aborted"
  /\ error = UnsupportedError
  /\ tokenize_text
  /\ li = 2
  /\ Len(completed) = 1
  /\ output_files[language] = OldOutput

(***************************************************************************)
(* C6.  In the raw-corpus reader the lines are read in turn; a line that   *)
(* fails to parse yields no record and leaves the reader running, so the   *)
(* records yielded are the lines that parse, in file order; the count      *)
(* printed when the file is exhausted is the number of lines that parse.   *)
(***************************************************************************)
EventKs(op) ==
  LET evs == SelectSeq(CurrentEvents, LAMBDA e : e.op = op)
  IN  [i \in 1..Len(evs) |-> evs[i].k]

RECURSIVE ParsedIndices(_)
\* The indices up to k of the raw lines that parse, ascending.
ParsedIndices(k) ==
  IF k = 0 THEN <<>>
  ELSE ParsedIndices(k - 1) \o (IF RawLines[k].kind = "bad" THEN <<>> ELSE <<k>>)

\* C6: lines read in turn, the parsing ones yielded in order, a failing one
\* passed over without ending the reader, the final count the parsing lines.
C6_ReaderSkipsBadLines ==
  Started =>
    /\ EventKs("read_line") = [i \in 1..rawPos |-> i]
    /\ EventKs("yield_row") = ParsedIndices(rawPos)
    /\ (rawPos >= 1 /\ RawLines[rawPos].kind = "bad" /\ ~Happened("print_rows"))
         => (pc = "read_line" /\ error = "")
    /\ Happened("print_rows")
         => /\ rawPos = Len(RawLines)
            /\ EventKs("print_rows") = <<Len(ParsedIndices(Len(RawLines)))>>

\* A line that fails, then a line that parses: one record counted.
C6_Witness ==
  /\ Started
  /\ Happened("print_rows")
  /\ Len(RawLines) = 2
  /\ RawLines[1].kind = "bad"
  /\ EventKs("yield_row") = <<2>>
  /\ EventKs("print_rows") = <<1>>

(***************************************************************************)
(* C7 as stated.  An error raised while a language is processed ends the   *)
(* whole run: nothing further happens, the output files of the languages   *)
(* that come only later in the list are untouched, and the output file of  *)
(* every language completed earlier in the list is as it was written.      *)
(***************************************************************************)
OnlyLater(l) == \A i \in 1..li : languages[i] # l

RunAborts ==
  /\ error # "" => pc = "aborted"
  /\ pc = "aborted" =>
       /\ error # ""
       /\ ~ENABLED Next
       /\ \A l \in LangCodes : OnlyLater(l) => output_files[l] \in {NoOutput, OldOutput}

AsWritten(c) == output_files[c.language] = OutputOf(c.data)

\* C7 as stated: an error ends the run at once, later outputs untouched, every
\* earlier completed output as written.
C7_EarlierOutputsStay ==
  /\ RunAborts
  /\ pc = "aborted" => \A i \in 1..Len(completed) : AsWritten(completed[i])

(***************************************************************************)
(* C7 as amended.  The same, but only the output files of the other        *)
(* languages completed earlier stay as written: when the failing language  *)
(* occurs earlier in the list too, its own earlier output file has been    *)
(* opened for writing again.                                               *)
(***************************************************************************)
\* C7 as amended: as above, for the earlier outputs of the other languages.
C7_OtherEarlierOutputsStay ==
  /\ RunAborts
  /\ pc = "aborted" =>
       \A i \in 1..Len(completed) :
         completed[i].language # language => AsWritten(completed[i])

\* The second language fails on its targets file after the first, another
\* language, wrote a pair.
C7_Witness ==
  /\ pc = "aborted"
  /\ error = "ValueError: targets line"
  /\ li = 2
  /\ Len(completed) = 1
  /\ completed[1].language # language
  /\ completed[1].data # <<>>
  /\ AsWritten(completed[1])

(***************************************************************************)
(* C8.  A target entry whose position is not in 0 .. number of sentences   *)
(* - 1 of the matched record makes the join fail when it is reached, and   *)
(* no pair is yielded for it -- for every such position, positive or       *)
(* negative: the source of every pair the join yields is the sentence at a *)
(* position inside 0 .. number of sentences - 1.                           *)
(***************************************************************************)
JustYielded == Started /\ pc = "resume" /\ sources.t = "arr"

\* C8: every pair yielded takes its source from a position in
\* 0 .. number of sentences - 1.
C8_OutOfRangeFails ==
  JustYielded => row_targets[ti + 1][1] \in 0..(Len(sources.a) - 1)

\* What holds instead: a position from -number of sentences up to -1 is
\* taken from the end, and only a position outside that wider range fails.
C8_PythonRange ==
  /\ JustYielded =>
       row_targets[ti + 1][1] \in (0 - Len(sources.a))..(Len(sources.a) - 1)
  /\ (Started /\ error = "IndexError: sources" /\ sources.t = "arr") =>
       row_targets[ti + 1][1] \notin (0 - Len(sources.a))..(Len(sources.a) - 1)

(***************************************************************************)
(* C9.  Within one language: all lines of the targets file are read before *)
(* the raw corpus is opened or a line of it read, and from then on the     *)
(* index is the one built from the file.  With tokenize_text true, nothing *)
(* is read or joined after the first output line is written: the raw       *)
(* corpus is exhausted by then.  With tokenize_text false, every pair      *)
(* yielded so far has been written when the next raw line is read or the   *)
(* next pair joined.                                                       *)
(***************************************************************************)
IndexOfFile ==
  LET keys == {TargetEntries[j].key : j \in 1..Len(TargetLines)}
      under(key) == SelectSeq(TargetEntries, LAMBDA e : e.key = key)
  IN  [key \in keys |-> [i \in 1..Len(under(key)) |-> under(key)[i].entry]]

TargetsBeforeRaw ==
  LET evs == CurrentEvents
  IN  /\ \A i \in 1..Len(evs) :
           evs[i].op \in {"open_raw", "read_line"} =>
             \E j \in 1..(i - 1) :
               evs[j].op = "read_targets" /\ evs[j].k = Len(TargetLines)
      /\ Happened("open_raw") => ids_2_targets = IndexOfFile

MaterializedBeforeWriting ==
  LET evs == CurrentEvents
  IN  \A i \in 1..Len(evs) :
        evs[i].op = "write" =>
          /\ rawPos = Len(RawLines)
          /\ pairs = emitted
          /\ \E j \in 1..(i - 1) : evs[j].op = "print_mapped"
          /\ \A j \in (i + 1)..Len(evs) :
               evs[j].op \notin {"read_targets", "open_raw", "read_line", "yield_pair"}

StreamedToWriter ==
  LET evs == CurrentEvents
  IN  \A i \in 1..Len(evs) :
        evs[i].op \in {"read_line", "yield_pair", "print_mapped"} =>
          CountBefore(evs, "write", i) = CountBefore(evs, "yield_pair", i)

\* C9: targets wholly read before the raw corpus; materialised before any
\* write when tokenizing, one write per yielded pair when streaming.
C9_StageOrder ==
  Started =>
    /\ TargetsBeforeRaw
    /\ tokenize_text => MaterializedBeforeWriting
    /\ ~tokenize_text => StreamedToWriter

PipelineOps ==
  LET evs == SelectSeq(CurrentEvents,
                       LAMBDA e : e.op \in {"read_line", "yield_pair", "write"})
  IN  [i \in 1..Len(evs) |-> evs[i].op]

\* Streaming: the first record's pair is written before the second line is read.
C9_Witness ==
  /\ Started
  /\ ~tokenize_text
  /\ JoinExhausted
  /\ PipelineOps = <<"read_line", "yield_pair", "write",
                     "read_line", "yield_pair", "write">>

(***************************************************************************)
(* C10.  For a supported language the output file is opened for writing    *)
(* before the targets file is opened.  When the targets file is missing or *)
(* has a line without exactly five tab-separated fields, the run never     *)
(* gets past reading it: it aborts there with that error and the output    *)
(* file is left empty, whatever it held before the run.                    *)
(***************************************************************************)
TargetsErrors == {"FileNotFoundError: targets", "ValueError: targets line"}

BadTargets ==
  \/ ~targets_files[language].exists
  \/ \E i \in 1..Len(TargetLines) :
       Cardinality({j \in 1..Len(TargetLines[i]) : TargetLines[i][j] = TAB}) # 4

OutputOpenedFirst ==
  LET evs == CurrentEvents
  IN  \A i \in 1..Len(evs) :
        evs[i].op = "open_targets" => \E j \in 1..(i - 1) : evs[j].op = "open_output"

\* C10: output opened before the targets; a bad targets file aborts the run
\* at the targets and leaves the output file empty.
C10_EmptyOutputOnBadTargets ==
  (Started /\ language \in ClaimedLanguages) =>
    /\ OutputOpenedFirst
    /\ BadTargets => pc \in {"prepare", "open_output", "read_targets", "aborted"}
    /\ (BadTargets /\ Happened("open_targets")) => error \in TargetsErrors
    /\ error \in TargetsErrors => output_files[language] = OutputOf(<<>>)

\* A four-field line ends the run; the output file of an earlier run is
\* now empty, those of the other languages still hold what they held.
C10_Witness ==
  /\ Started
  /\ error = "ValueError: targets line"
  /\ BadTargets
  /\ targets_files[language].exists
  /\ output_files[language] = OutputOf(<<>>)
  /\ \E l \in LangCodes : output_files[l] = OldOutput

====
